---- MODULE Spec2Model ----
(***************************************************************************)
(* A model of gucli.pyw: the ini file is loaded (and created when absent), *)
(* build_arg_parser compiles its sections into an argument parser,         *)
(* construct_and_run assembles the flat command line from the parsed       *)
(* values and run_command streams the subprocess output and reports the    *)
(* exit status.                                                            *)
(*                                                                         *)
(* Text that ends up in the command line is a sequence of one-character    *)
(* strings, so that concatenation, joining and stripping are computed.     *)
(* Section names, types, mutex ids and dictionary keys are only compared    *)
(* and are TLA+ strings.                                                   *)
(***************************************************************************)
EXTENDS Integers, Sequences, FiniteSets, TLC

\* ------------------------------------------------------------ bounds
\* Sections of an ini file found on disk.
MaxSections == 2
\* Lines the subprocess writes before it closes its output.
MaxLines == 2
\* File names chosen in a multiple file selection.
MaxFiles == 2

\* ------------------------------------------------------------ text
SP == " "
NL == "\n"

\* Python's None for an option read with a None fallback (text and names).
NoneStr == <<"<None>">>
NoneName == "<None>"

s_True == <<"T", "r", "u", "e">>
s_False == <<"F", "a", "l", "s", "e">>
s_None == <<"N", "o", "n", "e">>

\* ','.join(new_param)
RECURSIVE JoinComma(_)
JoinComma(l) ==
  IF Len(l) = 0 THEN <<>>
  ELSE IF Len(l) = 1 THEN l[1]
  ELSE l[1] \o <<",">> \o JoinComma(Tail(l))

\* ' '.join(new_param)
RECURSIVE Join(_)
Join(l) ==
  IF Len(l) = 0 THEN <<>>
  ELSE IF Len(l) = 1 THEN l[1]
  ELSE l[1] \o <<SP>> \o Join(Tail(l))

\* repr of a list of strings, as f'{...}' formats it: ['a', 'b']
RECURSIVE ReprItems(_)
ReprItems(l) ==
  IF Len(l) = 0 THEN <<>>
  ELSE <<"'">> \o l[1] \o <<"'">>
       \o (IF Len(l) = 1 THEN <<>> ELSE <<",", SP>> \o ReprItems(Tail(l)))

IsSpace(c) == c \in {SP, NL, "\t", "\r"}

\* str.rstrip()
RECURSIVE rstrip(_)
rstrip(s) ==
  IF Len(s) > 0 /\ IsSpace(s[Len(s)]) THEN rstrip(SubSeq(s, 1, Len(s) - 1)) ELSE s

\* str.lstrip()
RECURSIVE lstrip(_)
lstrip(s) ==
  IF Len(s) > 0 /\ IsSpace(s[1]) THEN lstrip(Tail(s)) ELSE s

\* str.strip()
strip(s) == lstrip(rstrip(s))

\* raw.split(','): the pieces between commas, empty pieces included.
RECURSIVE SplitFrom(_, _)
SplitFrom(s, piece) ==
  IF Len(s) = 0 THEN <<piece>>
  ELSE IF s[1] = "," THEN <<piece>> \o SplitFrom(Tail(s), <<>>)
  ELSE SplitFrom(Tail(s), Append(piece, s[1]))

split(s) == SplitFrom(s, <<>>)

\* [ch.strip() for ch in raw_choices.split(',') if ch != '']
RECURSIVE StripNonEmpty(_)
StripNonEmpty(pieces) ==
  IF Len(pieces) = 0 THEN <<>>
  ELSE (IF pieces[1] # <<>> THEN <<strip(pieces[1])>> ELSE <<>>)
       \o StripNonEmpty(Tail(pieces))

ParseChoices(raw) == StripNonEmpty(split(raw))

Range(f) == {f[i] : i \in DOMAIN f}

\* ------------------------------------------------------------ values
\* A parsed argument value: None, a boolean, a string or a list of strings.
NoneV == [t |-> "None", b |-> FALSE, s |-> <<>>, l |-> <<>>]
BoolV(x) == [t |-> "bool", b |-> x, s |-> <<>>, l |-> <<>>]
StrV(x) == [t |-> "str", b |-> FALSE, s |-> x, l |-> <<>>]
ListV(x) == [t |-> "list", b |-> FALSE, s |-> <<>>, l |-> x]

\* Python truth value of a parsed value: `if args.get(section):`
Truthy(v) ==
  CASE v.t = "None" -> FALSE
    [] v.t = "bool" -> v.b
    [] v.t = "str" -> v.s # <<>>
    [] v.t = "list" -> v.l # <<>>

\* f'{args[section]}'
Format(v) ==
  CASE v.t = "None" -> s_None
    [] v.t = "bool" -> (IF v.b THEN s_True ELSE s_False)
    [] v.t = "str" -> v.s
    [] v.t = "list" -> <<"[">> \o ReprItems(v.l) \o <<"]">>

\* ------------------------------------------------------------ schema
s_command == <<"p", "y", "t", "h", "o", "n", " ", "-", "m", " ", "j", "s", "o", "n", ".", "t", "o", "o", "l">>
s_help == <<"-", "-", "h", "e", "l", "p">>
s_indent == <<"-", "-", "i", "n", "d", "e", "n", "t">>
s_test == <<"-", "-", "t", "e", "s", "t">>
s_sort_keys == <<"-", "-", "s", "o", "r", "t", "-", "k", "e", "y", "s">>
s_tab == <<"-", "-", "t", "a", "b">>
s_no_indent == <<"-", "-", "n", "o", "-", "i", "n", "d", "e", "n", "t">>
s_compact == <<"-", "-", "c", "o", "m", "p", "a", "c", "t">>
s_dashdash == <<"-", "-">>
s_choices == <<"O", "n", "e", ",", " ", "T", "w", "o", ",", " ", "T", "h", "r", "e", "e">>
s_yes_no == <<"Y", "e", "s", ",", " ", "N", "o">>
s_level == <<"-", "l">>
s_include == <<"-", "I">>
s_verbose == <<"-", "v">>
s_on == <<"o", "n">>

\* config[section].get('flag', '_positional')
POSITIONAL == <<"_", "p", "o", "s", "i", "t", "i", "o", "n", "a", "l">>

\* The dest of the extra option build_arg_parser adds for the help page.
SHOW_COMMAND_HELP == "Show command's original help page"

\* An ini section: its name, the keys it sets and their values. A key that is
\* not in `keys` is not set; its field is then never read. The 'help' and
\* 'about' texts only label the form and are left out.
Section(name, keys, flag, type, default, mutex, choices) ==
  [name |-> name, keys |-> keys, flag |-> flag, type |-> type,
   default |-> default, mutex |-> mutex, choices |-> choices]

Root(keys, command, help_flag) ==
  [keys |-> keys, command |-> command, help_flag |-> help_flag]

\* The sections of the example schema (gucli.ini, DEFAULT_INI_FILE).
IndentationWidth ==
  Section("Indentation Width", {"flag", "type", "mutex"},
          s_indent, "string", <<>>, "IndentSpaceOrTab", <<>>)
TestChoice ==
  Section("Test Choice (Demo)", {"flag", "type", "choices"},
          s_test, "choice", <<>>, "", s_choices)
SortKeys ==
  Section("Sort Keys", {"flag"}, s_sort_keys, "", <<>>, "", <<>>)
Tab ==
  Section("Tab", {"flag", "type", "mutex"},
          s_tab, "boolean", <<>>, "IndentSpaceOrTab", <<>>)
NoIndent ==
  Section("No Indent", {"flag", "type", "mutex"},
          s_no_indent, "boolean", <<>>, "IndentSpaceOrTab", <<>>)
Compact ==
  Section("Compact", {"flag", "type", "mutex"},
          s_compact, "boolean", <<>>, "IndentSpaceOrTab", <<>>)
Infile ==
  Section("Infile", {"type"}, <<>>, "file", <<>>, "", <<>>)
Outfile ==
  Section("Outfile", {"type", "default"}, <<>>, "save", s_dashdash, "", <<>>)

\* DEFAULT_INI_FILE: what main writes when there is no ini file.
DEFAULT_INI_FILE ==
  [root |-> Root({"command", "about", "help_flag"}, s_command, s_help),
   sections |-> <<IndentationWidth, TestChoice, SortKeys, Tab, NoIndent,
                  Compact, Infile, Outfile>>]

\* Further sections a user's ini file may hold: the numeric indentation the
\* example schema suggests, a file list with a flag and an empty mutex id, a
\* type that is not one of the seven, a boolean with a default in a second
\* mutex group, and a positional argument in a mutex group.
IndentationNumeric ==
  Section("Indentation width", {"flag", "type", "default", "mutex"},
          s_indent, "integer", <<"2">>, "IndentSpaceOrTab", <<>>)
Include ==
  Section("Include", {"flag", "type", "mutex"}, s_include, "file", <<>>, "", <<>>)
Level ==
  Section("Level", {"flag", "type", "mutex"},
          s_level, "number", <<>>, "IndentSpaceOrTab", <<>>)
Verbose ==
  Section("Verbose", {"flag", "type", "default", "mutex"},
          s_verbose, "boolean", s_on, "Output", <<>>)
Target ==
  Section("Target", {"type", "mutex"}, <<>>, "dir", <<>>, "Output", <<>>)

SectionPool ==
  {IndentationNumeric, SortKeys, Infile, Include, Level, Verbose, Target}

\* The root sections a user's ini file may hold: with and without a help
\* flag, with an empty one, and without the mandatory command.
Roots ==
  {Root({"command", "help_flag"}, s_command, s_help),
   Root({"command"}, s_command, <<>>),
   Root({"command", "help_flag"}, s_command, <<>>),
   Root({"help_flag"}, <<>>, s_help)}

\* Section names are unique in an ini file (configparser rejects a repeat).
SectionLists ==
  UNION {{ss \in [1..n -> SectionPool] :
            \A i, j \in 1..n : i # j => ss[i].name # ss[j].name} :
         n \in 0..MaxSections}

IniFiles == {[root |-> r, sections |-> ss] : r \in Roots, ss \in SectionLists}

\* config.defaults()
defaults(config) == config.root

\* config.sections(): the section names in file order, without the root.
sections(config) == [i \in 1..Len(config.sections) |-> config.sections[i].name]

SectionOf(config, name) ==
  CHOOSE s \in Range(config.sections) : s.name = name

\* config[section].get(key, fallback): the section's own value, else the
\* value of the default section (root), else the fallback.
Get(config, section, key, fallback) ==
  LET s == SectionOf(config, section) IN
  IF key \in s.keys THEN s[key]
  ELSE IF key \in config.root.keys THEN config.root[key]
  ELSE fallback

\* ------------------------------------------------------------ state
VARIABLES
  pc,               \* where main is
  disk,             \* the ini file: whether it exists, and its content
  config,           \* the ConfigParser after read_file
  notices,          \* info_box calls, in order
  errors,           \* error dialogs shown by error_message, in order
  exc,              \* the exception being handled or propagated ("" if none)
  section_index,    \* build_arg_parser's position in config.sections()
  arguments,        \* the add_argument calls made on the parser and its groups
  mutex_group_dict, \* mutex id -> the group created for it
  ngroups,          \* add_mutually_exclusive_group calls so far
  help_offered,     \* whether the help page option was added to the parser
  args,             \* vars(parse_args()): dest -> value
  cmd,              \* the command line being assembled, then run
  construct_index,  \* construct_and_run's position in config.sections()
  printed,          \* what run_command has printed, in order
  produced,         \* lines the subprocess has written to its output so far
  nread,            \* lines run_command has read from proc.stdout
  stdout_open,      \* the subprocess still holds its output open
  returncode,       \* the subprocess exit status, NotExited while it runs
  retval,           \* what run_command / construct_and_run returned
  exit_status       \* the status main gave to sys.exit, NotExited before

vars ==
  <<pc, disk, config, notices, errors, exc, section_index, arguments,
    mutex_group_dict, ngroups, help_offered, args, cmd, construct_index,
    printed, produced, nread, stdout_open, returncode, retval, exit_status>>

build_vars == <<section_index, arguments, mutex_group_dict, ngroups, help_offered>>
proc_vars == <<produced, nread, stdout_open, returncode>>

NotExited == -1
\* Exit statuses of the subprocess (the shell reports 0..255).
Statuses == {0, 1}

NoConfig == [root |-> Root({}, <<>>, <<>>), sections |-> <<>>]
NoFile == [exists |-> FALSE, content |-> NoConfig]
File(c) == [exists |-> TRUE, content |-> c]

EmptyDict == [k \in {} |-> 0]

Init ==
  /\ pc = "start"
  /\ disk \in {NoFile} \cup {File(c) : c \in IniFiles}
  /\ config = NoConfig
  /\ notices = <<>>
  /\ errors = <<>>
  /\ exc = ""
  /\ section_index = 0
  /\ arguments = <<>>
  /\ mutex_group_dict = EmptyDict
  /\ ngroups = 0
  /\ help_offered = FALSE
  /\ args = EmptyDict
  /\ cmd = <<>>
  /\ construct_index = 0
  /\ printed = <<>>
  /\ produced = <<>>
  /\ nread = 0
  /\ stdout_open = FALSE
  /\ returncode = NotExited
  /\ retval = NotExited
  /\ exit_status = NotExited

\* ------------------------------------------------------------ main: the ini file
\* An existence test that always fails: the file is rewritten on every start.
IniExists_never(d) == FALSE

\* Path(ini_file_name).exists()
IniExists(d) == d.exists

\* main, lines 390-401: write the default ini file when there is none, then
\* read the file into the ConfigParser.
LoadIni ==
  /\ pc = "start"
  /\ LET created == ~IniExists(disk)
         after == IF created THEN File(DEFAULT_INI_FILE) ELSE disk
     IN /\ disk' = after
        /\ notices' = IF created THEN Append(notices, [box |-> "ini generated", section |-> "", type |-> ""])
                      ELSE notices
        /\ config' = after.content
  /\ pc' = "loaded"
  /\ UNCHANGED <<errors, exc, build_vars, args, cmd, construct_index, printed, proc_vars, retval, exit_status>>

\* ------------------------------------------------------------ build_arg_parser
\* Python truth value of an option text: None and '' are false.
TruthyName(x) == x # NoneName /\ x # ""
TruthyStr(x) == x # NoneStr /\ x # <<>>

\* A group created for every section that names a mutex id.
select_parser_group_always_new(cfg, section, dict, n) ==
  LET arg_mutex == Get(cfg, section, "mutex", NoneName) IN
  IF TruthyName(arg_mutex)
  THEN [dict |-> (arg_mutex :> (n + 1)) @@ dict, ngroups |-> n + 1, item |-> n + 1]
  ELSE [dict |-> dict, ngroups |-> n, item |-> 0]

\* select_parser_group: the parser itself (item 0) or the mutex group of the
\* section's mutex id (item k: the k-th group created), created on first use.
select_parser_group(cfg, section, dict, n) ==
  LET arg_mutex == Get(cfg, section, "mutex", NoneName) IN
  IF TruthyName(arg_mutex)
  THEN IF arg_mutex \notin DOMAIN dict
       THEN [dict |-> (arg_mutex :> (n + 1)) @@ dict, ngroups |-> n + 1, item |-> n + 1]
       ELSE [dict |-> dict, ngroups |-> n, item |-> dict[arg_mutex]]
  ELSE [dict |-> dict, ngroups |-> n, item |-> 0]

\* The type switch with a final branch that stores a value.
arg_action_store(arg_type) ==
  CASE arg_type = "boolean" -> "store_true"
    [] arg_type \in {"string", "choice"} -> "store"
    [] arg_type \in {"integer", "file", "save", "dir"} -> "None"
    [] OTHER -> "store"

\* add_argument's type switch: the argparse action of a type.
arg_action(arg_type) ==
  CASE arg_type = "boolean" -> "store_true"
    [] arg_type = "string" -> "store"
    [] arg_type = "integer" -> "None"
    [] arg_type = "file" -> "None"
    [] arg_type = "save" -> "None"
    [] arg_type = "dir" -> "None"
    [] arg_type = "choice" -> "store"
    [] OTHER -> "store_true"

\* add_argument's type switch: the Gooey widget of a type.
arg_widget(arg_type) ==
  CASE arg_type = "integer" -> "IntegerField"
    [] arg_type = "file" -> "MultiFileChooser"
    [] arg_type = "save" -> "FileSaver"
    [] arg_type = "dir" -> "DirChooser"
    [] OTHER -> "None"

\* add_argument's type switch: the final else branch is taken.
InvalidType(arg_type) ==
  arg_type \notin {"boolean", "string", "integer", "file", "save", "dir", "choice"}

\* add_argument, lines 191-240: the argument a section compiles to.
arg_dict(cfg, section) ==
  LET arg_flag == Get(cfg, section, "flag", POSITIONAL)
      arg_type == Get(cfg, section, "type", "boolean")
      arg_default == Get(cfg, section, "default", NoneStr)
      arg_choices == IF arg_type = "choice"
                     THEN ParseChoices(Get(cfg, section, "choices", s_yes_no))
                     ELSE <<>>
  IN [dest |-> section,
      positional |-> (arg_flag = POSITIONAL),
      flag |-> arg_flag,
      type |-> arg_type,
      default |-> arg_default,
      action |-> arg_action(arg_type),
      widget |-> arg_widget(arg_type),
      nargs |-> IF arg_type = "file" THEN "+" ELSE "None",
      choices |-> arg_choices]

\* argparse refuses a required (positional) argument in a mutually
\* exclusive group: item.add_argument raises ValueError.
AddRefused(a, item) == a.positional /\ item # 0

\* A build that reads the command with a fallback: root.get('command', '').
BuildStart_command_optional ==
  /\ pc = "loaded"
  /\ pc' = "build"
  /\ section_index' = 1
  /\ UNCHANGED <<disk, config, notices, errors, exc, arguments, mutex_group_dict,
                 ngroups, help_offered, args, cmd, construct_index, printed,
                 proc_vars, retval, exit_status>>

\* build_arg_parser, lines 253-257: the mandatory command is read from the
\* root section and the parser is created.
BuildStart ==
  /\ pc = "loaded"
  /\ IF "command" \in defaults(config).keys
     THEN /\ pc' = "build"
          /\ section_index' = 1
          /\ exc' = exc
     ELSE /\ pc' = "except"
          /\ exc' = "KeyError: 'command'"
          /\ section_index' = section_index
  /\ UNCHANGED <<disk, config, notices, errors, arguments, mutex_group_dict,
                 ngroups, help_offered, args, cmd, construct_index, printed, proc_vars, retval,
                 exit_status>>

\* One iteration of build_arg_parser's loop: add_argument for the next section.
AddArgument ==
  /\ pc = "build"
  /\ section_index <= Len(sections(config))
  /\ LET section == sections(config)[section_index]
         a == arg_dict(config, section)
         g == select_parser_group(config, section, mutex_group_dict, ngroups)
     IN /\ notices' = IF InvalidType(a.type)
                      THEN Append(notices, [box |-> "invalid type", section |-> section, type |-> a.type])
                      ELSE notices
        /\ mutex_group_dict' = g.dict
        /\ ngroups' = g.ngroups
        /\ IF AddRefused(a, g.item)
           THEN /\ pc' = "except"
                /\ exc' = "ValueError: mutually exclusive arguments must be optional"
                /\ UNCHANGED <<arguments, section_index>>
           ELSE /\ arguments' = Append(arguments, [arg |-> a, item |-> g.item])
                /\ section_index' = section_index + 1
                /\ UNCHANGED <<pc, exc>>
  /\ UNCHANGED <<disk, config, errors, help_offered, args, cmd, construct_index, printed,
                 proc_vars, retval, exit_status>>

\* The help page option offered whatever the root section holds.
help_option_always(root) == TRUE

\* build_arg_parser, lines 261-262: root.get('help_flag', None) is set and
\* not empty.
help_option(root) ==
  TruthyStr(IF "help_flag" \in root.keys THEN root.help_flag ELSE NoneStr)

\* build_arg_parser, lines 260-268: after the loop the help page option is
\* added when the root section has a non-empty help_flag.
BuildFinish ==
  /\ pc = "build"
  /\ section_index > Len(sections(config))
  /\ help_offered' = help_option(defaults(config))
  /\ pc' = "form"
  /\ UNCHANGED <<disk, config, notices, errors, exc, section_index, arguments,
                 mutex_group_dict, ngroups, args, cmd, construct_index, printed, proc_vars,
                 retval, exit_status>>

\* ------------------------------------------------------------ parse_args
Digits == <<"1", "2", "3", "4", "5", "6", "7", "8", "9">>

\* The k-th file name of a selection.
FileName(k) == <<"f", Digits[k]>>

\* A multiple file selection: f1; f2 f1; f3 f2 f1; ... (not in sorted order).
FileSelections ==
  {[i \in 1..n |-> FileName(n - i + 1)] : n \in 1..MaxFiles}

\* What a user types into a text, file name or directory field.
Entered == {<<"4">>, s_True}

\* The value of an argument the user does not supply: its default.
DefaultV(a) == IF a.default = NoneStr THEN NoneV ELSE StrV(a.default)

\* The values the form can supply for an argument.
UserValues(a) ==
  IF a.action = "store_true" THEN {BoolV(TRUE)}
  ELSE IF a.nargs = "+" THEN {ListV(l) : l \in FileSelections}
  ELSE IF a.choices # <<>> THEN {StrV(c) : c \in Range(a.choices)}
  ELSE IF a.widget = "IntegerField" THEN {StrV(<<"2">>)}
  ELSE {StrV(e) : e \in Entered}

\* A positional argument is required; one without a default must be supplied.
ArgValues(a) ==
  IF a.positional /\ a.default = NoneStr THEN UserValues(a)
  ELSE {DefaultV(a)} \cup UserValues(a)

\* dest -> value for the arguments from position i on.
RECURSIVE Namespaces(_, _)
Namespaces(argl, i) ==
  IF i > Len(argl) THEN {EmptyDict}
  ELSE {(argl[i].arg.dest :> v) @@ f :
          v \in ArgValues(argl[i].arg), f \in Namespaces(argl, i + 1)}

\* parse_args accepts at most one supplied argument of a mutex group.
MutexRespected(argl, ns) ==
  \A i, j \in 1..Len(argl) :
    (i # j /\ argl[i].item # 0 /\ argl[i].item = argl[j].item)
      => \/ ns[argl[i].arg.dest] = DefaultV(argl[i].arg)
         \/ ns[argl[j].arg.dest] = DefaultV(argl[j].arg)

\* build_arg_parser, line 269: parser.parse_args() returns the values the
\* user submitted in the form.
ParseArgs ==
  /\ pc = "form"
  /\ \E ns \in {n \in Namespaces(arguments, 1) : MutexRespected(arguments, n)} :
       /\ \E show \in (IF help_offered THEN {TRUE, FALSE} ELSE {FALSE}) :
            args' = IF help_offered
                    THEN (SHOW_COMMAND_HELP :> BoolV(show)) @@ ns
                    ELSE ns
  /\ pc' = "parsed"
  /\ UNCHANGED <<disk, config, notices, errors, exc, build_vars, cmd, construct_index, printed,
                 proc_vars, retval, exit_status>>

\* ------------------------------------------------------------ construct_and_run
\* args.get(key, fallback)
ArgsGet(a, key, fallback) == IF key \in DOMAIN a THEN a[key] ELSE fallback

\* construct_and_run, lines 301-312: what a set section adds to the command.
section_param(cfg, a, section) ==
  LET flag == Get(cfg, section, "flag", <<>>)
      arg_flag == IF flag # <<>> THEN <<SP>> \o flag ELSE <<>>
      new_param == a[section]
      cmd_param == IF Format(new_param) # s_True
                   THEN <<SP>> \o (IF new_param.t = "list"
                                   THEN Join(new_param.l)
                                   ELSE new_param.s)
                   ELSE <<>>
  IN arg_flag \o cmd_param

\* The names of the sections that do (or do not) set a flag, in file order.
RECURSIVE SectionsWithFlag(_, _, _)
SectionsWithFlag(cfg, i, flagged) ==
  IF i > Len(cfg.sections) THEN <<>>
  ELSE (IF ("flag" \in cfg.sections[i].keys) = flagged
        THEN <<cfg.sections[i].name>> ELSE <<>>)
       \o SectionsWithFlag(cfg, i + 1, flagged)

\* A wrong order: the flags first, the positional arguments after them.
section_order_flags_first(cfg) ==
  SectionsWithFlag(cfg, 1, TRUE) \o SectionsWithFlag(cfg, 1, FALSE)

\* construct_and_run, line 299: the order in which the sections are visited.
section_order(cfg) == sections(cfg)

\* construct_and_run, lines 300-312: one iteration of the loop; a section
\* whose value is false, empty or missing adds nothing.
add_section(cfg, a, section, c) ==
  IF Truthy(ArgsGet(a, section, NoneV))
  THEN c \o section_param(cfg, a, section)
  ELSE c

\* The help page option is selected.
HelpSelected(a) == Truthy(ArgsGet(a, SHOW_COMMAND_HELP, BoolV(FALSE)))

\* Lines of run_command's output.
Running(c) == [kind |-> "Running", text |-> c, status |-> 0]
OutputLine(s) == [kind |-> "line", text |-> s, status |-> 0]
DoneStatus(r) == [kind |-> "Done", text |-> <<>>, status |-> r]

\* construct_and_run, lines 295-298: the base command; with the help page
\* option selected the command is the base command and the help flag.
ConstructStart ==
  /\ pc = "parsed"
  /\ LET root == defaults(config) IN
     IF HelpSelected(args)
     THEN IF "help_flag" \in root.keys
          THEN /\ cmd' = root.command \o <<SP>> \o root.help_flag
               /\ pc' = "run"
               /\ UNCHANGED <<exc, construct_index>>
          ELSE /\ pc' = "except"
               /\ exc' = "KeyError: 'help_flag'"
               /\ UNCHANGED <<cmd, construct_index>>
     ELSE /\ cmd' = root.command
          /\ construct_index' = 1
          /\ pc' = "construct"
          /\ exc' = exc
  /\ UNCHANGED <<disk, config, notices, errors, build_vars, args, printed,
                 proc_vars, retval, exit_status>>

\* construct_and_run, lines 299-312: one iteration of the loop.
ConstructStep ==
  /\ pc = "construct"
  /\ construct_index <= Len(section_order(config))
  /\ cmd' = add_section(config, args, section_order(config)[construct_index], cmd)
  /\ construct_index' = construct_index + 1
  /\ UNCHANGED <<pc, disk, config, notices, errors, exc, build_vars, args,
                 printed, proc_vars, retval, exit_status>>

\* run_command, lines 275-279: the command is printed and the subprocess
\* is started with its output piped.
RunCommand ==
  /\ \/ pc = "run"
     \/ pc = "construct" /\ construct_index > Len(section_order(config))
  /\ printed' = Append(printed, Running(cmd))
  /\ stdout_open' = TRUE
  /\ pc' = "streaming"
  /\ UNCHANGED <<disk, config, notices, errors, exc, build_vars, args, cmd,
                 construct_index, produced, nread, returncode, retval,
                 exit_status>>

\* ------------------------------------------------------------ run_command
\* The k-th line the subprocess writes; every other line ends in a blank.
ProcessLine(k) ==
  <<"l", Digits[k]>> \o (IF k % 2 = 0 THEN <<SP>> ELSE <<>>) \o <<NL>>

\* The subprocess writes a line to its output.
ProcWrite ==
  /\ pc = "streaming"
  /\ stdout_open
  /\ Len(produced) < MaxLines
  /\ produced' = Append(produced, ProcessLine(Len(produced) + 1))
  /\ UNCHANGED <<pc, disk, config, notices, errors, exc, build_vars, args, cmd, construct_index,
                 printed, nread, stdout_open, returncode, retval, exit_status>>

\* The subprocess closes its output.
ProcClose ==
  /\ pc = "streaming"
  /\ stdout_open
  /\ stdout_open' = FALSE
  /\ UNCHANGED <<pc, disk, config, notices, errors, exc, build_vars, args, cmd, construct_index,
                 printed, produced, nread, returncode, retval, exit_status>>

\* The subprocess exits.
ProcExit ==
  /\ pc \in {"streaming", "waiting"}
  /\ returncode = NotExited
  /\ \E s \in Statuses : returncode' = s
  /\ UNCHANGED <<pc, disk, config, notices, errors, exc, build_vars, args, cmd, construct_index,
                 printed, produced, nread, stdout_open, retval, exit_status>>

\* run_command, lines 280-282: the next line of proc.stdout is decoded,
\* stripped on the right and printed.
ReadLine ==
  /\ pc = "streaming"
  /\ nread < Len(produced)
  /\ printed' = Append(printed, OutputLine(rstrip(produced[nread + 1])))
  /\ nread' = nread + 1
  /\ UNCHANGED <<pc, disk, config, notices, errors, exc, build_vars, args, cmd, construct_index,
                 produced, stdout_open, returncode, retval, exit_status>>

\* A loop that stops as soon as the output is closed, unread lines or not.
EndOfOutput_early ==
  /\ pc = "streaming"
  /\ ~stdout_open
  /\ pc' = "waiting"
  /\ UNCHANGED <<disk, config, notices, errors, exc, build_vars, args, cmd,
                 construct_index, printed, proc_vars, retval, exit_status>>

\* run_command, line 280: the loop ends when the output has ended.
EndOfOutput ==
  /\ pc = "streaming"
  /\ nread = Len(produced)
  /\ ~stdout_open
  /\ pc' = "waiting"
  /\ UNCHANGED <<disk, config, notices, errors, exc, build_vars, args, cmd, construct_index,
                 printed, proc_vars, retval, exit_status>>

\* run_command, lines 283-290: proc.wait returns the exit status, the status
\* line is printed and the status is returned through construct_and_run.
Wait ==
  /\ pc = "waiting"
  /\ returncode # NotExited
  /\ retval' = returncode
  /\ printed' = Append(printed, DoneStatus(returncode))
  /\ pc' = "returned"
  /\ UNCHANGED <<disk, config, notices, errors, exc, build_vars, args, cmd, construct_index,
                 proc_vars, exit_status>>

\* main, line 406: sys.exit(retval).
SysExit ==
  /\ pc = "returned"
  /\ exit_status' = retval
  /\ pc' = "exited"
  /\ UNCHANGED <<disk, config, notices, errors, exc, build_vars, args, cmd, construct_index,
                 printed, proc_vars, retval>>

\* main, lines 407-408 and error_message: the exception is shown in the
\* error dialog and raised again.
ErrorMessage ==
  /\ pc = "except"
  /\ errors' = Append(errors, exc)
  /\ pc' = "raised"
  /\ UNCHANGED <<disk, config, notices, exc, build_vars, args, cmd, construct_index, printed,
                 proc_vars, retval, exit_status>>

Next ==
  \/ LoadIni
  \/ BuildStart
  \/ AddArgument
  \/ BuildFinish
  \/ ParseArgs
  \/ ConstructStart
  \/ ConstructStep
  \/ RunCommand
  \/ ProcWrite
  \/ ProcClose
  \/ ProcExit
  \/ ReadLine
  \/ EndOfOutput
  \/ Wait
  \/ SysExit
  \/ ErrorMessage

Spec == Init /\ [][Next]_vars

\* ------------------------------------------------------------ claims
\* The command has been assembled by the loop over the sections.
Assembled ==
  pc \in {"streaming", "waiting", "returned", "exited"} /\ ~HelpSelected(args)

\* The section (its own keys) at position i of the loaded schema.
SectionAt(i) == config.sections[i]

\* A parsed value that counts as unset: None, False, '' or [].
Unset(v) ==
  v \in {NoneV, BoolV(FALSE), StrV(<<>>), ListV(<<>>)}

ValueOf(name) == IF name \in DOMAIN args THEN args[name] ELSE NoneV

\* One space and the section's flag, when it has one.
FlagPart(s) ==
  IF "flag" \in s.keys /\ s.flag # <<>> THEN <<SP>> \o s.flag ELSE <<>>

\* The elements of a list in their order, separated by single spaces.
RECURSIVE SpaceSeparated(_)
SpaceSeparated(l) ==
  IF Len(l) = 0 THEN <<>>
  ELSE IF Len(l) = 1 THEN l[1]
  ELSE SpaceSeparated(SubSeq(l, 1, Len(l) - 1)) \o <<SP>> \o l[Len(l)]

\* A value as text: a string as it is, a list space separated, True as "True".
Stringified(v) ==
  CASE v.t = "str" -> v.s
    [] v.t = "list" -> SpaceSeparated(v.l)
    [] v.t = "bool" -> (IF v.b THEN s_True ELSE s_False)
    [] OTHER -> s_None

\* What C1 says a section contributes: nothing when unset, else its flag
\* and its stringified value, each after one space.
ContributionAsClaimed(s) ==
  IF Unset(ValueOf(s.name)) THEN <<>>
  ELSE FlagPart(s) \o <<SP>> \o Stringified(ValueOf(s.name))

\* What a section contributes: as claimed, except that a value whose text
\* is True contributes its flag only.
Contribution(s) ==
  IF Unset(ValueOf(s.name)) THEN <<>>
  ELSE IF Stringified(ValueOf(s.name)) = s_True THEN FlagPart(s)
  ELSE FlagPart(s) \o <<SP>> \o Stringified(ValueOf(s.name))

RECURSIVE ContributionsFrom(_, _)
ContributionsFrom(C(_), i) ==
  IF i > Len(config.sections) THEN <<>>
  ELSE C(SectionAt(i)) \o ContributionsFrom(C, i + 1)

\* C1 as stated: without the help option the command is the base command
\* followed, in schema order, by each set section's flag and stringified
\* value, each preceded by one space; unset sections contribute nothing.
C1_AsStated ==
  Assembled =>
    cmd = defaults(config).command \o ContributionsFrom(ContributionAsClaimed, 1)

\* C1 amended: the same, except that a set section whose value reads True
\* (a selected boolean, or the text True) contributes its flag only.
C1_CommandInSchemaOrder ==
  Assembled =>
    cmd = defaults(config).command \o ContributionsFrom(Contribution, 1)

\* A positional file list stands before a later flag, after an earlier one,
\* and a string value is passed along.
C1_Witness ==
  /\ pc = "exited"
  /\ ~HelpSelected(args)
  /\ \E i, j \in 1..Len(config.sections) :
       /\ i < j
       /\ "flag" \notin SectionAt(i).keys
       /\ "flag" \in SectionAt(j).keys
       /\ ValueOf(SectionAt(i).name).t = "list"
       /\ ~Unset(ValueOf(SectionAt(j).name))

\* sub occurs in s as a contiguous run.
Contains(s, sub) ==
  \E i \in 0..(Len(s) - Len(sub)) : SubSeq(s, i + 1, i + Len(sub)) = sub

\* The types whose argument takes a value.
ValueTypes == {"string", "integer", "file", "dir", "save", "choice"}

\* C2 as stated: a set argument of a type that takes a value, with a
\* non-empty text as its value, has its flag (if any), a space and that
\* text in the assembled command: the value is never dropped.
C2_ValueNeverDropped ==
  Assembled =>
    \A i \in 1..Len(config.sections) :
      LET s == SectionAt(i)
          v == ValueOf(s.name)
      IN (arguments[i].arg.type \in ValueTypes /\ v.t = "str" /\ v.s # <<>>)
           => Contains(cmd, FlagPart(s) \o <<SP>> \o v.s)

\* construct_and_run's loop handles the section at construct_index.
SectionStep ==
  /\ pc = "construct"
  /\ construct_index <= Len(config.sections)
  /\ construct_index' = construct_index + 1

\* C3 as stated: the step for a boolean (store_true) argument appends only
\* the flag when the argument is selected (value True) and appends nothing
\* when it is not selected.
C3_BooleanFlagOnly ==
  [][(SectionStep /\ arguments[construct_index].arg.action = "store_true")
       => IF ValueOf(SectionAt(construct_index).name) = BoolV(TRUE)
          THEN cmd' = cmd \o FlagPart(SectionAt(construct_index))
          ELSE cmd' = cmd]_vars

\* The command has been given to run_command.
Ran == pc \in {"streaming", "waiting", "returned", "exited"}

\* C4: the help page option is offered only with a non-empty help_flag in
\* the root section; when it is selected the command run is the base
\* command, one space and the help_flag, whatever the other values are;
\* a missing help_flag is never read.
C4_HelpCommand ==
  LET root == defaults(config) IN
  /\ help_offered => ("help_flag" \in root.keys /\ root.help_flag # <<>>)
  /\ HelpSelected(args) => help_offered
  /\ (Ran /\ HelpSelected(args))
       => /\ cmd = root.command \o <<SP>> \o root.help_flag
          /\ printed[1] = Running(root.command \o <<SP>> \o root.help_flag)
  /\ exc # "KeyError: 'help_flag'"

\* The help page was run although other arguments were set.
C4_Witness ==
  /\ pc = "exited"
  /\ HelpSelected(args)
  /\ \E i \in 1..Len(config.sections) : ~Unset(ValueOf(SectionAt(i).name))

\* C5: the step for an argument whose value is a list of file names appends
\* the flag (if any), one space and the names in their order separated by
\* single spaces.
C5_FileListJoined ==
  [][(SectionStep
        /\ ValueOf(SectionAt(construct_index).name).t = "list"
        /\ ValueOf(SectionAt(construct_index).name).l # <<>>)
       => cmd' = cmd \o FlagPart(SectionAt(construct_index)) \o <<SP>>
                     \o SpaceSeparated(ValueOf(SectionAt(construct_index).name).l)]_vars

\* A list of two or more files was passed for an argument with a flag.
C5_Witness ==
  /\ pc = "exited"
  /\ ~HelpSelected(args)
  /\ \E i \in 1..Len(config.sections) :
       /\ "flag" \in SectionAt(i).keys
       /\ ValueOf(SectionAt(i).name).t = "list"
       /\ Len(ValueOf(SectionAt(i).name).l) >= 2

\* build_arg_parser has left its loop without an exception.
Built ==
  pc \in {"form", "parsed", "construct", "run", "streaming", "waiting",
          "returned", "exited"}

HasMutex(s) == "mutex" \in s.keys /\ s.mutex # ""

\* The mutex ids of the first k sections.
MutexIds(k) == {SectionAt(i).mutex : i \in {j \in 1..k : HasMutex(SectionAt(j))}}

\* The position of the first section with mutex id m.
FirstWith(m) ==
  CHOOSE i \in 1..Len(config.sections) :
    /\ HasMutex(SectionAt(i)) /\ SectionAt(i).mutex = m
    /\ \A j \in 1..(i - 1) : ~(HasMutex(SectionAt(j)) /\ SectionAt(j).mutex = m)

\* C6: while and after the sections are compiled there is exactly one group
\* per mutex id met so far, created when the first section with that id was
\* processed; a section with a mutex id is in the group of its id, a section
\* without one is in the parser itself; in the end every section is compiled.
C6_MutexGroups ==
  (pc = "build" \/ Built) =>
    LET k == Len(arguments) IN
    /\ k = section_index - 1
    /\ Built => k = Len(config.sections)
    /\ DOMAIN mutex_group_dict = MutexIds(k)
    /\ ngroups = Cardinality(MutexIds(k))
    /\ \A m \in DOMAIN mutex_group_dict :
         mutex_group_dict[m] = 1 + Cardinality(MutexIds(FirstWith(m) - 1))
    /\ \A i \in 1..k :
         /\ arguments[i].arg.dest = SectionAt(i).name
         /\ arguments[i].item =
              IF HasMutex(SectionAt(i))
              THEN mutex_group_dict[SectionAt(i).mutex]
              ELSE 0

\* Two sections share a group while another is in the parser itself.
C6_Witness ==
  /\ pc = "form"
  /\ \E i, j, k \in 1..Len(arguments) :
       /\ i # j
       /\ arguments[i].item # 0
       /\ arguments[i].item = arguments[j].item
       /\ arguments[k].item = 0

InvalidNotice(s) == [box |-> "invalid type", section |-> s.name, type |-> s.type]

\* C7: a section without a type key compiles to store_true without a
\* notice; a section whose type is not one of the seven compiles to
\* store_true and a notice names the section and the type; neither stops
\* the loading of the sections after it.
C7_DefaultsToBoolean ==
  /\ \A i \in 1..Len(arguments) :
       LET s == SectionAt(i) IN
       /\ "type" \notin s.keys
            => /\ arguments[i].arg.action = "store_true"
               /\ \A n \in Range(notices) : n.section # s.name
       /\ ("type" \in s.keys /\ s.type \notin ValueTypes \cup {"boolean"})
            => /\ arguments[i].arg.action = "store_true"
               /\ InvalidNotice(s) \in Range(notices)
  /\ \A n \in Range(notices) :
       n.box = "invalid type"
         => \E i \in 1..Len(config.sections) :
              /\ n = InvalidNotice(SectionAt(i))
              /\ SectionAt(i).type \notin ValueTypes \cup {"boolean"}
  /\ exc = "" => (pc = "build" => Len(arguments) = section_index - 1)
  /\ Built => Len(arguments) = Len(config.sections)

\* A section with an invalid type was compiled, and so was a section
\* without a type after it.
C7_Witness ==
  /\ pc = "form"
  /\ \E i, j \in 1..Len(arguments) :
       /\ i < j
       /\ "type" \in SectionAt(i).keys
       /\ SectionAt(i).type = "number"
       /\ "type" \notin SectionAt(j).keys

\* C8: the first step writes the default ini file only when there is no
\* file; an existing file is left as it is and is what is parsed; no later
\* step touches the file.
C8_IniCreatedOnlyWhenAbsent ==
  [][IF pc = "start"
     THEN IF disk.exists
          THEN disk' = disk /\ config' = disk.content
          ELSE disk' = File(DEFAULT_INI_FILE) /\ config' = DEFAULT_INI_FILE
     ELSE disk' = disk /\ config' = config]_vars

\* An ini file of the user's was found, kept and parsed.
C8_Witness ==
  /\ pc = "loaded"
  /\ notices = <<>>
  /\ disk.exists
  /\ disk.content # DEFAULT_INI_FILE
  /\ config = disk.content
  /\ Len(config.sections) > 0

\* text is line without its trailing white space.
Stripped(text, line) ==
  /\ Len(text) <= Len(line)
  /\ SubSeq(line, 1, Len(text)) = text
  /\ text # <<>> => ~IsSpace(text[Len(text)])
  /\ \A i \in (Len(text) + 1)..Len(line) : IsSpace(line[i])

\* C9: the Running line is printed first, then the lines of the subprocess
\* in the order it wrote them, and the Done line only once the output has
\* ended and the process has exited; the status returned is the exit status
\* of the subprocess and main exits with it.
C9_OutputOrder ==
  LET done == pc \in {"returned", "exited"} IN
  /\ ~Ran => printed = <<>>
  /\ Ran => /\ Len(printed) = 1 + nread + (IF done THEN 1 ELSE 0)
            /\ printed[1] = Running(cmd)
            /\ \A i \in 1..nread :
                 /\ printed[i + 1].kind = "line"
                 /\ Stripped(printed[i + 1].text, produced[i])
  /\ done => /\ printed[Len(printed)] = DoneStatus(returncode)
             /\ nread = Len(produced)
             /\ ~stdout_open
             /\ returncode # NotExited
             /\ retval = returncode
  /\ ~done => retval = NotExited
  /\ exit_status = (IF pc = "exited" THEN returncode ELSE NotExited)

\* Two lines were relayed and main exited with a non-zero status.
C9_Witness ==
  /\ pc = "exited"
  /\ Len(produced) >= 2
  /\ exit_status = 1

Failed == pc \in {"except", "raised"}

C10_Safety ==
  /\ ("command" \notin defaults(config).keys /\ pc \notin {"start", "loaded"})
       => (Failed /\ exc = "KeyError: 'command'")
  /\ Failed <=> exc # ""
  /\ Failed => /\ printed = <<>>
               /\ ~stdout_open
               /\ returncode = NotExited
               /\ exit_status = NotExited
  /\ errors = (IF pc = "raised" THEN <<exc>> ELSE <<>>)

C10_Step ==
  [][pc = "except"
       => (pc' = "raised" /\ exc' = exc /\ errors' = Append(errors, exc))]_vars

\* C10: without a command key the build fails with a KeyError and no
\* subprocess is run; every exception raised after the ini file is loaded
\* is shown once in the error dialog and raised again, and nothing runs
\* after it.
C10_ErrorsReported == []C10_Safety /\ C10_Step

\* The missing command was reported and raised again.
C10_Witness ==
  /\ pc = "raised"
  /\ "command" \notin defaults(config).keys
  /\ errors = <<"KeyError: 'command'">>

====
